---- MODULE Spec2Model ----
(***************************************************************************)
(* Model of the Generate subsystem of autodj-headless:                     *)
(*   src/src/autodj/generate/selector.py  (MerlinGreedySelector,           *)
(*                                         BlastxcssSelector,              *)
(*                                         select_playlist)                *)
(*   src/src/autodj/generate/energy.py    (estimate_track_energy, ...)     *)
(*   src/src/autodj/generate/playlist.py  (ArchwizardPhonemius, generate)  *)
(*   src/src/autodj/db.py                 (get_recent_usage)               *)
(*                                                                         *)
(* Conventions.                                                            *)
(*  - A Python Optional value is a sequence of length <= 1: None is <<>>   *)
(*    and a present value v is <<v>>.                                      *)
(*  - A Python str that the code slices (a Camelot key) is a sequence of   *)
(*    one-character strings, "12B" is <<"1","2","B">>.                     *)
(*  - Reals are exact rationals: BPM, seconds and dB are integers, an      *)
(*    energy in [0,1] is an integer number of thousandths, a progress and  *)
(*    a target energy are fractions [num, den].  Rounding of IEEE doubles  *)
(*    is not modelled.                                                     *)
(***************************************************************************)
EXTENDS Integers, Sequences, FiniteSets, TLC

VARIABLES
    library,                  \* the caller's list of track dicts
    call,                     \* [entry, strategy, max_tracks]: the call being made
    seed_track_id,            \* Optional explicit seed passed by the caller
    target_duration_minutes,  \* target of the call
    bpm_tolerance,            \* SelectionConstraints.bpm_tolerance
    playlist_history,         \* rows of the store's playlist_history table
    now,                      \* the store's clock, in hours
    used_in_set,              \* MerlinGreedySelector.used_in_set
    playlist,                 \* build_playlist's local list of ids
    total_duration,           \* build_playlist's local total_duration
    current_track,            \* build_playlist's local current_track (Optional)
    seed_id,                  \* ArchwizardPhonemius.build_playlist's seed_id
    pc,                       \* position of the call
    sel_ret,                  \* what the selector's build_playlist returned
    ph_ret,                   \* what ArchwizardPhonemius.build_playlist returned
    gen_ret,                  \* what generate() returned
    disk,                     \* the artifacts in the output directory
    key1, key2,               \* operands of a direct _camelot_compatible call
    compatible_ret,           \* its result (Optional BOOLEAN)
    config,                   \* the config dict (Optional) of Phonemius / generate()
    utc,                      \* datetime.utcnow(), in milliseconds
    playlist_id,              \* ArchwizardPhonemius.build_playlist's playlist_id
    gen_track_ids,            \* generate()'s / _plan_transitions' track_ids (Optional)
    transitions,              \* generate()'s transitions, _plan_transitions' result
    iteration,                \* build_playlist's local iteration (0: not yet set)
    run,                      \* 1, or 2 in the second build of the same inputs
    first_ret,                \* what the first of two builds returned
    instance,                 \* the selector object in use: 1, or 2 once a second is constructed
    clock_budget,             \* how often the wall clock may still advance
    energy_track,             \* argument of a direct estimate_track_energy call (Optional)
    score_candidates,         \* candidates of a direct compute_energy_score call
    energy_window_size,       \* its energy_window_size
    energy_ret                \* result of the direct energy.py call (Optional)

vars == <<library, call, seed_track_id, target_duration_minutes, bpm_tolerance,
          playlist_history, now, used_in_set, playlist, total_duration,
          current_track, seed_id, pc, sel_ret, ph_ret, gen_ret, disk,
          key1, key2, compatible_ret, config, utc, playlist_id, gen_track_ids,
          transitions, iteration, run, first_ret, instance, clock_budget,
          energy_track, score_candidates, energy_window_size, energy_ret>>

(* the state of the direct energy.py calls *)
energy_vars == <<energy_track, score_candidates, energy_window_size, energy_ret>>

----------------------------------------------------------------------------
(* Python values *)

None == <<>>

Some(v) == <<v>>

IsNone(x) == x = <<>>

Val(x) == x[1]

Abs(x) == IF x < 0 THEN -x ELSE x

Clamp01(x) == IF x < 0 THEN 0 ELSE IF x > 1000 THEN 1000 ELSE x

Digits == {"0", "1", "2", "3", "4", "5", "6", "7", "8", "9"}

DigitVal(c) ==
    CASE c = "0" -> 0 [] c = "1" -> 1 [] c = "2" -> 2 [] c = "3" -> 3
      [] c = "4" -> 4 [] c = "5" -> 5 [] c = "6" -> 6 [] c = "7" -> 7
      [] c = "8" -> 8 [] c = "9" -> 9

RECURSIVE DigitsVal(_)
DigitsVal(s) ==
    IF s = <<>> THEN 0
    ELSE 10 * DigitsVal(SubSeq(s, 1, Len(s) - 1)) + DigitVal(s[Len(s)])

RECURSIVE Strip(_)
Strip(s) ==
    IF s = <<>> THEN s
    ELSE IF s[1] = " " THEN Strip(Tail(s))
    ELSE IF s[Len(s)] = " " THEN Strip(SubSeq(s, 1, Len(s) - 1))
    ELSE s

(* Python's int(str): surrounding blanks are dropped, one sign is allowed,  *)
(* then one or more decimal digits (leading zeros included); anything else *)
(* raises ValueError, [ok |-> FALSE].                                       *)
PyInt(s) ==
    LET t == Strip(s)
        signed == t # <<>> /\ t[1] \in {"+", "-"}
        d == IF signed THEN Tail(t) ELSE t
    IN  IF d # <<>> /\ \A i \in 1..Len(d) : d[i] \in Digits
        THEN [ok |-> TRUE,
              val |-> IF signed /\ t[1] = "-" THEN -DigitsVal(d) ELSE DigitsVal(d)]
        ELSE [ok |-> FALSE, val |-> 0]

UNKNOWN == <<"u", "n", "k", "n", "o", "w", "n">>

----------------------------------------------------------------------------
(* selector.py: the two compatibility predicates *)

camelot_adjacent(num1, num2) ==
    \/ (num1 % 12) + 1 = (num2 % 12)
    \/ (num2 % 12) + 1 = (num1 % 12)

camelot_compatible_ignoring_mode(k1, k2) ==
    IF IsNone(k1) \/ IsNone(k2) \/ k1 = Some(UNKNOWN) \/ k2 = Some(UNKNOWN)
    THEN TRUE
    ELSE LET s1 == Val(k1)
             s2 == Val(k2)
             n1 == PyInt(SubSeq(s1, 1, Len(s1) - 1))
             n2 == PyInt(SubSeq(s2, 1, Len(s2) - 1))
         IN  IF s1 = <<>> \/ s2 = <<>> \/ ~n1.ok \/ ~n2.ok
             THEN TRUE
             ELSE n1.val = n2.val \/ camelot_adjacent(n1.val, n2.val)

(* _camelot_compatible *)
camelot_compatible(k1, k2) ==
    IF IsNone(k1) \/ IsNone(k2) \/ k1 = Some(UNKNOWN) \/ k2 = Some(UNKNOWN)
    THEN TRUE
    ELSE LET s1 == Val(k1)
             s2 == Val(k2)
             n1 == PyInt(SubSeq(s1, 1, Len(s1) - 1))
             n2 == PyInt(SubSeq(s2, 1, Len(s2) - 1))
         IN  IF s1 = <<>> \/ s2 = <<>> \/ ~n1.ok \/ ~n2.ok
             THEN TRUE                      \* ValueError / IndexError caught
             ELSE IF s1[Len(s1)] # s2[Len(s2)]
                  THEN n1.val = n2.val
                  ELSE IF n1.val = n2.val
                       THEN TRUE
                       ELSE camelot_adjacent(n1.val, n2.val)

bpm_compatible_no_abs(bpm1, bpm2, tolerance_percent) ==
    IF IsNone(bpm1) \/ IsNone(bpm2)
    THEN TRUE
    ELSE (Val(bpm2) - Val(bpm1)) * 100 <= Val(bpm1) * tolerance_percent

(* abs(bpm2 - bpm1) <= bpm1 * (tolerance_percent / 100.0), times 100 *)
bpm_compatible(bpm1, bpm2, tolerance_percent) ==
    IF IsNone(bpm1) \/ IsNone(bpm2)
    THEN TRUE
    ELSE Abs(Val(bpm2) - Val(bpm1)) * 100 <= Val(bpm1) * tolerance_percent

----------------------------------------------------------------------------
(* Track dicts, the store, SelectionConstraints *)

Key(n, m) ==
    IF n < 10 THEN <<CHOOSE c \in Digits : DigitVal(c) = n, m>>
    ELSE <<"1", CHOOSE c \in Digits : DigitVal(c) = n - 10, m>>

(* A track dict.  A field the dict does not carry reads as None through     *)
(* dict.get; duration_seconds is always carried (NOT NULL in the store).    *)
Track(id, path, dur, bpm, key) ==
    [id |-> id, file_path |-> path, duration_seconds |-> dur, bpm |-> bpm,
     key |-> key, energy |-> None, cue_in_energy |-> None,
     cue_out_energy |-> None, loudness_db |-> None]

min_track_duration_seconds == 120

max_repeat_decay_hours == 168

(* The tracks libraries are made of.  Two records share the id "a", two    *)
(* the id "b" and two the id "c", so a library may list an id twice with   *)
(* different metadata.                                                     *)
TrackPool ==
    { Track("a", Some("/m/a1"), 200, Some(100), Some(Key(12, "B"))),
      Track("a", Some("/m/a2"),  60, Some(100), None),
      Track("b", Some("/m/b1"), 200, Some(104), Some(Key(1, "B"))),
      Track("b", Some("/m/b2"), 200, Some(110), None),
      Track("c", None,          200, None,      Some(UNKNOWN)),
      Track("c", Some("/m/c2"), 200, Some(105), Some(Key(1, "A"))) }

MaxLibrary == 3

(* Libraries: lists of at most MaxLibrary different records of the pool     *)
(* (listing the very same record twice adds no behaviour: its second copy  *)
(* is filtered as soon as the first is used).                              *)
Libraries ==
    UNION { { l \in [1..n -> TrackPool] :
                \A i, j \in 1..n : i # j => l[i] # l[j] } : n \in 0..MaxLibrary }

(* a call that stored what it computed in the dicts it was handed *)
library_as_cached ==
    [i \in DOMAIN library |-> [library[i] EXCEPT !.energy = Some(500)]]

(* The library argument after a call: selector.py and playlist.py only     *)
(* read it (comprehensions, next(), .get() and a dict built from it), the  *)
(* list and its dicts are never assigned to.                               *)
library_as_read == library

Tolerances == {4, 10}

Targets == {5, 10}

InitialHour == 1000

(* playlist_history rows (track_id, used_at), used_at in hours.            *)
Histories ==
    { {},
      { [track_id |-> "a", used_at |-> InitialHour - 1] },
      { [track_id |-> "b", used_at |-> InitialHour - 1],
        [track_id |-> "c", used_at |-> InitialHour - max_repeat_decay_hours] } }

(* The calls: build_playlist on a fresh selector of either class with an   *)
(* explicit max_tracks, select_playlist and the orchestrated entry points  *)
(* with build_playlist's default max_tracks = 90, generate() in its direct *)
(* mode and _plan_transitions on its own.                                  *)
Calls ==
    [entry : {"build_playlist"}, strategy : {"merlin", "blastxcss"}, max_tracks : {1, 2}]
    \cup [entry : {"select_playlist"}, strategy : {"merlin", "blastxcss"}, max_tracks : {90}]
    \cup [entry : {"phonemius", "generate", "generate_direct", "plan_transitions"},
          strategy : {"merlin"}, max_tracks : {90}]

Orchestrated == {"phonemius", "generate"}

(* the calls that are handed a track sequence instead of building one *)
Direct == {"generate_direct", "plan_transitions"}

Seeds(c) ==
    IF c.entry \in Direct THEN {None}
    ELSE {Some("a"), Some("b"), Some("z")}
         \cup (IF c.entry \in Orchestrated THEN {None} ELSE {})

MaxTrackIds == 2

(* the track sequences of the direct calls: an id of the pool and one that *)
(* no library holds, repeats allowed; generate() may also get None         *)
TrackIdLists(c) ==
    IF c.entry \in Direct
    THEN { Some(l) : l \in UNION { [1..n -> {"a", "z"}] : n \in 0..MaxTrackIds } }
         \cup (IF c.entry = "generate_direct" THEN {None} ELSE {})
    ELSE {None}

(* a config dict: its render section with crossfade_duration_seconds and   *)
(* its mix section with max_playlist_tracks, each present or not           *)
ConfigDict(crossfade, max_playlist_tracks) ==
    Some([render |-> [crossfade_duration_seconds |-> crossfade],
          mix |-> [max_playlist_tracks |-> max_playlist_tracks]])

Config(crossfade) == ConfigDict(crossfade, None)

(* render.crossfade_duration_seconds: absent, below, inside and above the  *)
(* bounds of Config.PARAM_BOUNDS                                           *)
Crossfades == {None, Some(1), Some(6), Some(10)}

(* the configs of a call: the planner reads the crossfade setting;         *)
(* generate() may be called without a config                               *)
Configs(c) ==
    CASE c.entry = "plan_transitions" -> { Config(x) : x \in Crossfades }
      [] c.entry = "phonemius" -> {Config(None), Config(Some(10)),
                                   ConfigDict(None, Some(2))}
      [] c.entry \in {"generate", "generate_direct"} -> {Config(None), None}
      [] OTHER -> {Config(None)}

(* a playlist id: its text and, for a generated one, the time stamp        *)
PlaylistId(text, stamp) == [text |-> text, stamp |-> stamp]

(* the playlist_id argument: only ArchwizardPhonemius.build_playlist takes *)
(* one, generate() never passes it                                         *)
PlaylistIdArgs(c) ==
    IF c.entry = "phonemius" THEN {None, Some(PlaylistId("my-mix", None))}
    ELSE {None}

(* the clock when the call starts, in milliseconds of the day 2024-01-01 *)
InitialUtc == 86399500

(* {t.get("id"): t for t in library}: the last record listed under an id *)
TrackDict(lib) ==
    [id \in {lib[i].id : i \in 1..Len(lib)} |->
        lib[CHOOSE i \in 1..Len(lib) :
                /\ lib[i].id = id
                /\ \A j \in (i + 1)..Len(lib) : lib[j].id # id]]

(* db.get_recent_usage: rows of the track with used_at > now - hours_back *)
get_recent_usage(track_id, hours_back) ==
    { r \in playlist_history :
        r.track_id = track_id /\ r.used_at > now - hours_back }

is_recently_used(track_id, hours_back) ==
    Cardinality(get_recent_usage(track_id, hours_back)) > 0

----------------------------------------------------------------------------
(* energy.py *)

estimate_track_energy_cue_out_first(track) ==
    IF ~IsNone(track.energy) THEN Clamp01(Val(track.energy))
    ELSE IF ~IsNone(track.cue_out_energy) THEN Clamp01(Val(track.cue_out_energy))
    ELSE IF ~IsNone(track.cue_in_energy) THEN Clamp01(Val(track.cue_in_energy))
    ELSE IF ~IsNone(track.loudness_db)
         THEN Clamp01(((Val(track.loudness_db) + 40) * 1000) \div 40)
    ELSE IF ~IsNone(track.bpm)
         THEN Clamp01(((Val(track.bpm) - 80) * 1000) \div 100)
    ELSE 500

(* estimate_track_energy: energies in thousandths.  A key the dict does    *)
(* not carry and a key holding None both read as None.                     *)
estimate_track_energy(track) ==
    IF ~IsNone(track.energy) THEN Clamp01(Val(track.energy))
    ELSE IF ~IsNone(track.cue_in_energy) THEN Clamp01(Val(track.cue_in_energy))
    ELSE IF ~IsNone(track.cue_out_energy) THEN Clamp01(Val(track.cue_out_energy))
    ELSE IF ~IsNone(track.loudness_db)
         THEN Clamp01(((Val(track.loudness_db) + 40) * 1000) \div 40)
    ELSE IF ~IsNone(track.bpm)
         THEN Clamp01(((Val(track.bpm) - 80) * 1000) \div 100)
    ELSE 500

(* BlastxcssSelector._target_energy_for_position, progress = num/den with  *)
(* den > 0; the result is a fraction too.                                  *)
target_energy_for_position(progress) ==
    LET n == progress.num
        d == progress.den
    IN  IF 10 * n < 3 * d THEN [num |-> 9 * d + 20 * n, den |-> 30 * d]
        ELSE IF 2 * n < d THEN [num |-> d + 30 * n, den |-> 20 * d]
        ELSE IF 10 * n < 7 * d THEN [num |-> 4, den |-> 5]
        ELSE [num |-> 26 * d - 20 * n, den |-> 15 * d]

(* compute_energy_distance(target, energy) = |target - energy|, returned   *)
(* over the common denominator 1000 * target.den                           *)
compute_energy_distance(target, energy) ==
    Abs(1000 * target.num - energy * target.den)

RECURSIVE SumSeq(_)
SumSeq(xs) == IF xs = <<>> THEN 0 ELSE Head(xs) + SumSeq(Tail(xs))

(* the energies compute_energy_score looks ahead at for the candidate at   *)
(* the 0-based index idx:                                                  *)
(* for j in range(idx + 1, min(idx + energy_window_size, len(candidates))) *)
lookahead_energies(candidates, idx, window) ==
    LET stop == IF idx + window < Len(candidates) THEN idx + window
                ELSE Len(candidates)
    IN  [k \in 1..(IF stop > idx + 1 THEN stop - (idx + 1) ELSE 0) |->
            estimate_track_energy(candidates[idx + 1 + k])]

(* sum((e - mean) ** 2 for e in energies) / len(energies), as the fraction *)
(* (n * sum(e^2) - sum(e)^2) / n^2 of squared thousandths                  *)
variance(energies) ==
    LET n == Len(energies)
        total == SumSeq(energies)
        squares == SumSeq([k \in 1..n |-> energies[k] * energies[k]])
    IN  [num |-> n * squares - total * total, den |-> n * n]

(* compute_energy_score: the dict of scores, keyed by candidate id (a      *)
(* later candidate with the same id overwrites, one without id is          *)
(* skipped).  combined_score = 0.7 * distance + 0.3 * sqrt(variance) is    *)
(* kept as its two terms: the distance in millionths and the variance      *)
(* under the square root (0 for an empty lookahead).                       *)
compute_energy_score(current, candidates, window) ==
    IF candidates = <<>> THEN << >>
    ELSE LET current_energy == estimate_track_energy(current)
             scored == { i \in 1..Len(candidates) : candidates[i].id # "" }
             last(id) == CHOOSE i \in scored :
                            /\ candidates[i].id = id
                            /\ \A j \in scored : candidates[j].id = id => j <= i
         IN  [id \in { candidates[i].id : i \in scored } |->
                LET ahead == lookahead_energies(candidates, last(id) - 1, window)
                IN  [distance_score |->
                         compute_energy_distance([num |-> current_energy, den |-> 1000],
                                                 estimate_track_energy(candidates[last(id)])),
                     variance |-> IF ahead # <<>> THEN variance(ahead)
                                  ELSE [num |-> 0, den |-> 1]]]

----------------------------------------------------------------------------
(* selector.py: choose_next and build_playlist *)

(* The filter loop shared by both choose_next methods: a candidate stays    *)
(* unless its id is in used_in_set, it was recently used, or its BPM or    *)
(* key is incompatible with the current track.                             *)
IsValidCandidate(current, candidate, used) ==
    /\ candidate.id \notin used
    /\ ~is_recently_used(candidate.id, max_repeat_decay_hours)
    /\ bpm_compatible(current.bpm, candidate.bpm, bpm_tolerance)
    /\ camelot_compatible(current.key, candidate.key)

valid_candidates(current, candidates, used) ==
    SelectSeq(candidates, LAMBDA c : IsValidCandidate(current, c, used))

merlin_choose_next_last(current, candidates, used) ==
    LET valid == valid_candidates(current, candidates, used)
    IN  IF valid = <<>> THEN None
        ELSE Some([track_id |-> valid[Len(valid)].id,
                   hints |-> [bpm |-> valid[Len(valid)].bpm,
                              key |-> valid[Len(valid)].key,
                              valid_count |-> Len(valid)]])

(* MerlinGreedySelector.choose_next: the first valid candidate, None when  *)
(* there is none.  The id it returns is also added to used_in_set.         *)
merlin_choose_next(current, candidates, used) ==
    LET valid == valid_candidates(current, candidates, used)
    IN  IF valid = <<>> THEN None
        ELSE Some([track_id |-> valid[1].id,
                   hints |-> [bpm |-> valid[1].bpm, key |-> valid[1].key,
                              valid_count |-> Len(valid)]])

blastxcss_choose_next_ignoring_key(current, candidates, used, progress) ==
    LET valid == SelectSeq(candidates, LAMBDA c :
                     /\ c.id \notin used
                     /\ ~is_recently_used(c.id, max_repeat_decay_hours)
                     /\ bpm_compatible(current.bpm, c.bpm, bpm_tolerance))
    IN  IF candidates = <<>> \/ valid = <<>> THEN None
        ELSE Some([track_id |-> valid[1].id,
                   hints |-> [bpm |-> valid[1].bpm, key |-> valid[1].key,
                              valid_count |-> Len(valid)]])

blastxcss_choose_next_unsorted(current, candidates, used, progress) ==
    LET valid == valid_candidates(current, candidates, used)
    IN  IF candidates = <<>> \/ valid = <<>> THEN None
        ELSE Some([track_id |-> valid[1].id,
                   hints |-> [bpm |-> valid[1].bpm, key |-> valid[1].key,
                              valid_count |-> Len(valid)]])

(* BlastxcssSelector.choose_next: the valid candidate nearest in energy to *)
(* the target of the progress; list.sort is stable, so among equally near  *)
(* candidates the first listed wins.                                       *)
blastxcss_choose_next(current, candidates, used, progress) ==
    LET valid == valid_candidates(current, candidates, used)
        target == target_energy_for_position(progress)
        dist(c) == compute_energy_distance(target, estimate_track_energy(c))
    IN  IF candidates = <<>> \/ valid = <<>> THEN None
        ELSE LET i == CHOOSE i \in 1..Len(valid) :
                        /\ \A j \in 1..Len(valid) : dist(valid[i]) <= dist(valid[j])
                        /\ \A j \in 1..(i - 1) : dist(valid[j]) > dist(valid[i])
             IN  Some([track_id |-> valid[i].id,
                       hints |-> [bpm |-> valid[i].bpm, key |-> valid[i].key,
                                  valid_count |-> Len(valid)]])

mark_used_forgotten(used, track_id) == used

(* self.used_in_set.add(track_id) *)
mark_used(used, track_id) == used \cup {track_id}

(* progress = total_duration / target_duration_seconds if target > 0 else 0 *)
Progress(total, target_seconds) ==
    IF target_seconds > 0 THEN [num |-> total, den |-> target_seconds]
    ELSE [num |-> 0, den |-> 1]

choose_next(strategy, current, candidates, used, total, target_seconds) ==
    IF strategy = "blastxcss"
    THEN blastxcss_choose_next(current, candidates, used,
                               Progress(total, target_seconds))
    ELSE merlin_choose_next(current, candidates, used)

(* the candidates list build_playlist hands to choose_next *)
remaining_candidates(lib, used) ==
    SelectSeq(lib, LAMBDA t : /\ t.id \notin used
                              /\ t.duration_seconds >= min_track_duration_seconds)

target_duration_seconds == target_duration_minutes * 60

(* the seed build_playlist is called with: the caller's, or the one         *)
(* ArchwizardPhonemius selected                                            *)
BuildSeed == IF call.entry \in Orchestrated THEN Val(seed_id) ELSE Val(seed_track_id)

AfterBuild == IF call.entry \in Orchestrated THEN "check" ELSE "done"

(* build_playlist up to its loop: seed lookup, playlist = [seed] *)
BuildPlaylistStart ==
    /\ pc = IF call.entry \in Orchestrated THEN "build" ELSE "call"
    /\ call.entry \notin Direct
    /\ IF BuildSeed \notin DOMAIN TrackDict(library)
       THEN /\ sel_ret' = None
            /\ pc' = AfterBuild
            /\ UNCHANGED <<used_in_set, playlist, total_duration, current_track,
                           iteration>>
       ELSE /\ playlist' = <<BuildSeed>>
            /\ total_duration' = TrackDict(library)[BuildSeed].duration_seconds
            /\ used_in_set' = mark_used(used_in_set, BuildSeed)
            /\ current_track' = Some(TrackDict(library)[BuildSeed])
            /\ iteration' = 1
            /\ pc' = "loop"
            /\ UNCHANGED sel_ret
    /\ library' = library_as_read
    /\ UNCHANGED <<call, seed_track_id, target_duration_minutes,
                   bpm_tolerance, playlist_history, now, seed_id, ph_ret,
                   gen_ret, disk, key1, key2, compatible_ret, config, utc,
                   playlist_id, gen_track_ids, transitions, run, first_ret, instance,
                   clock_budget, energy_vars>>

LoopCondition_ignoring_target ==
    Len(playlist) < call.max_tracks

LoopCondition_ignoring_max_tracks ==
    total_duration < target_duration_seconds

(* while total_duration < target_duration_seconds and                      *)
(*       len(playlist) < max_tracks                                        *)
LoopCondition ==
    /\ total_duration < target_duration_seconds
    /\ Len(playlist) < call.max_tracks

NextChoice ==
    choose_next(call.strategy, Val(current_track),
                remaining_candidates(library, used_in_set), used_in_set,
                total_duration, target_duration_seconds)

(* one iteration of the greedy loop that appends a track *)
ExtendPlaylist ==
    /\ pc = "loop"
    /\ LoopCondition
    /\ remaining_candidates(library, used_in_set) # <<>>
    /\ ~IsNone(NextChoice)
    /\ LET next_track_id == Val(NextChoice).track_id
           next_track == TrackDict(library)[next_track_id]
       IN  /\ used_in_set' = mark_used(used_in_set, next_track_id)
           /\ playlist' = Append(playlist, next_track_id)
           /\ total_duration' = total_duration + next_track.duration_seconds
           /\ current_track' = Some(next_track)
           /\ iteration' = iteration + 1
    /\ library' = library_as_read
    /\ UNCHANGED <<call, seed_track_id, target_duration_minutes,
                   bpm_tolerance, playlist_history, now, seed_id, pc, sel_ret,
                   ph_ret, gen_ret, disk, key1, key2, compatible_ret, config,
                   utc, playlist_id, gen_track_ids, transitions, run, first_ret, instance,
                   clock_budget, energy_vars>>

(* the loop ends (condition false, or one of the two breaks): return playlist *)
BuildPlaylistReturn ==
    /\ pc = "loop"
    /\ \/ ~LoopCondition
       \/ remaining_candidates(library, used_in_set) = <<>>
       \/ IsNone(NextChoice)
    /\ sel_ret' = Some(playlist)
    /\ pc' = AfterBuild
    /\ library' = library_as_read
    /\ UNCHANGED <<call, seed_track_id, target_duration_minutes,
                   bpm_tolerance, playlist_history, now, used_in_set, playlist,
                   total_duration, current_track, seed_id, ph_ret, gen_ret,
                   disk, key1, key2, compatible_ret, config, utc, playlist_id,
                   gen_track_ids, transitions, iteration, run, first_ret, instance,
                   clock_budget, energy_vars>>

selector_init_shared == used_in_set

(* MerlinGreedySelector.__init__: self.used_in_set = set() *)
selector_init == {}

(* test_build_playlist_deterministic: after the first build a second       *)
(* selector is constructed and build_playlist is called on it with the     *)
(* same library, seed, target and max_tracks; the store is not touched.    *)
SecondBuild ==
    /\ pc = "done"
    /\ call.entry = "build_playlist"
    /\ call.strategy = "merlin"
    /\ run = 1
    /\ first_ret' = sel_ret
    /\ run' = 2
    /\ instance' = 2
    /\ used_in_set' = selector_init
    /\ playlist' = <<>>
    /\ total_duration' = 0
    /\ current_track' = None
    /\ iteration' = 0
    /\ sel_ret' = None
    /\ pc' = "call"
    /\ library' = library_as_read
    /\ UNCHANGED <<call, seed_track_id, target_duration_minutes,
                   bpm_tolerance, playlist_history, now, seed_id, ph_ret,
                   gen_ret, disk, key1, key2, compatible_ret, config, utc,
                   playlist_id, gen_track_ids, transitions, clock_budget,
                   energy_vars>>

(* A second build_playlist call on the selector that made the first one,   *)
(* with the same arguments and store: nothing re-runs __init__, so         *)
(* self.used_in_set is what the first call left.                           *)
RepeatBuild ==
    /\ pc = "done"
    /\ call.entry = "build_playlist"
    /\ run = 1
    /\ first_ret' = sel_ret
    /\ run' = 2
    /\ playlist' = <<>>
    /\ total_duration' = 0
    /\ current_track' = None
    /\ iteration' = 0
    /\ sel_ret' = None
    /\ pc' = "call"
    /\ library' = library_as_read
    /\ UNCHANGED <<call, seed_track_id, target_duration_minutes,
                   bpm_tolerance, playlist_history, now, used_in_set, seed_id,
                   ph_ret, gen_ret, disk, key1, key2, compatible_ret, config,
                   utc, playlist_id, gen_track_ids, transitions, instance,
                   clock_budget, energy_vars>>

----------------------------------------------------------------------------
(* playlist.py: ArchwizardPhonemius and generate() *)

select_seed_track_no_fallback(lib, seed) ==
    IF lib = <<>> THEN {None}
    ELSE IF ~IsNone(seed) /\ \E i \in 1..Len(lib) : lib[i].id = Val(seed)
    THEN {seed}
    ELSE {None}

select_seed_track_always_random(lib, seed) ==
    IF lib = <<>> THEN {None}
    ELSE LET candidates ==
                 { i \in 1..Len(lib) :
                     lib[i].duration_seconds >= min_track_duration_seconds }
         IN  IF candidates = {} THEN {None}
             ELSE { Some(lib[i].id) : i \in candidates }

select_seed_track_any_duration(lib, seed) ==
    IF lib = <<>> THEN {None}
    ELSE IF ~IsNone(seed) /\ \E i \in 1..Len(lib) : lib[i].id = Val(seed)
    THEN {seed}
    ELSE { Some(lib[i].id) : i \in 1..Len(lib) }

(* _select_seed_track: the ids it may return.  random.choice may return    *)
(* any of its candidates.                                                  *)
select_seed_track(lib, seed) ==
    IF lib = <<>> THEN {None}
    ELSE IF ~IsNone(seed) /\ \E i \in 1..Len(lib) : lib[i].id = Val(seed)
    THEN {seed}
    ELSE LET candidates ==
                 { i \in 1..Len(lib) :
                     lib[i].duration_seconds >= min_track_duration_seconds }
         IN  IF candidates = {} THEN {None}
             ELSE { Some(lib[i].id) : i \in candidates }

crossfade_duration_seconds == 4

(* self.config.get("render", {}).get("crossfade_duration_seconds", 4.0) *)
mix_out_seconds ==
    LET setting == Val(config).render.crossfade_duration_seconds
    IN  IF IsNone(setting) THEN crossfade_duration_seconds ELSE Val(setting)

(* _select_transition_effect returns "smart_crossfade" on every path *)
select_transition_effect(current_key, next_track_id, library_dict) ==
    "smart_crossfade"

(* library_dict.get(track_id, {}) followed by .get(field) *)
DictGet(library_dict, track_id, field) ==
    IF track_id \in DOMAIN library_dict THEN library_dict[track_id][field] ELSE None

plan_transitions_next_is_self(track_ids, library_dict) ==
    [idx \in 1..Len(track_ids) |->
        [track_index |-> idx - 1,
         track_id |-> track_ids[idx],
         entry_cue |-> "cue_in",
         hold_duration_bars |-> 16,
         target_bpm |-> DictGet(library_dict, track_ids[idx], "bpm"),
         exit_cue |-> "cue_out",
         mix_out_seconds |-> mix_out_seconds,
         effect |-> "smart_crossfade",
         next_track_id |-> IF idx + 1 <= Len(track_ids)
                           THEN Some(track_ids[idx]) ELSE None]]

(* _plan_transitions: one TransitionPlan per element of track_ids *)
plan_transitions(track_ids, library_dict) ==
    [idx \in 1..Len(track_ids) |->
        LET next_track_id ==
                IF idx + 1 <= Len(track_ids) THEN Some(track_ids[idx + 1]) ELSE None
        IN  [track_index |-> idx - 1,
             track_id |-> track_ids[idx],
             entry_cue |-> "cue_in",
             hold_duration_bars |-> 16,
             target_bpm |-> DictGet(library_dict, track_ids[idx], "bpm"),
             exit_cue |-> "cue_out",
             mix_out_seconds |-> mix_out_seconds,
             effect |-> select_transition_effect(
                            DictGet(library_dict, track_ids[idx], "key"),
                            next_track_id, library_dict),
             next_track_id |-> next_track_id]]

(* strftime('%Y%m%d-%H%M%S') of a clock value: the date and the time of    *)
(* day as the numbers their digits spell, the milliseconds dropped         *)
strftime(t) ==
    LET seconds == t \div 1000
        day == seconds \div 86400
        rest == seconds % 86400
    IN  <<20240101 + day,
          (rest \div 3600) * 10000 + ((rest % 3600) \div 60) * 100 + (rest % 60)>>

ClockStep == 600

MaxClockAdvances == 1

(* datetime.utcnow(): what a call may read when the clock shows u and may  *)
(* still advance b times: the instant u, or a later one                    *)
utcnow(u, b) ==
    { [utc |-> u, budget |-> b] }
    \cup (IF b > 0 THEN { [utc |-> u + ClockStep, budget |-> b - 1] } ELSE {})

(* f"autodj-{datetime.utcnow().strftime('%Y%m%d-%H%M%S')}" *)
generated_playlist_id(t) == PlaylistId("autodj-", Some(strftime(t)))

(* generate() without a config: logs an error and returns None *)
GenerateNoConfig ==
    /\ pc = "call"
    /\ call.entry \in {"generate", "generate_direct"}
    /\ IsNone(config)
    /\ gen_ret' = None
    /\ pc' = "done"
    /\ UNCHANGED <<library, call, seed_track_id, target_duration_minutes,
                   bpm_tolerance, playlist_history, now, used_in_set, playlist,
                   total_duration, current_track, seed_id, sel_ret, ph_ret,
                   disk, key1, key2, compatible_ret, config, utc, playlist_id,
                   gen_track_ids, transitions, iteration, run, first_ret, instance,
                   clock_budget, energy_vars>>

(* ArchwizardPhonemius.build_playlist up to the selector call: the         *)
(* playlist id is the caller's or generated from the clock, the seed is    *)
(* selected; no seed ends the call (and generate) with None.               *)
SelectSeedTrack ==
    /\ pc = "call"
    /\ call.entry \in Orchestrated
    /\ ~IsNone(config)
    /\ IF IsNone(playlist_id)
       THEN \E t \in utcnow(utc, clock_budget) :
               /\ playlist_id' = Some(generated_playlist_id(t.utc))
               /\ utc' = t.utc
               /\ clock_budget' = t.budget
       ELSE UNCHANGED <<playlist_id, utc, clock_budget>>
    /\ \E s \in select_seed_track(library, seed_track_id) :
          /\ seed_id' = s
          /\ IF IsNone(s)
             THEN /\ ph_ret' = None
                  /\ gen_ret' = None
                  /\ pc' = "done"
             ELSE /\ pc' = "build"
                  /\ UNCHANGED <<ph_ret, gen_ret>>
    /\ library' = library_as_read
    /\ UNCHANGED <<call, seed_track_id, target_duration_minutes,
                   bpm_tolerance, playlist_history, now, used_in_set, playlist,
                   total_duration, current_track, sel_ret, disk,
                   key1, key2, compatible_ret, config, gen_track_ids,
                   transitions, iteration, run, first_ret, instance,
                   energy_vars>>

insufficient_never(track_ids) == IsNone(track_ids)

(* not track_ids or len(track_ids) < 2 *)
insufficient(track_ids) ==
    IsNone(track_ids) \/ Val(track_ids) = <<>> \/ Len(Val(track_ids)) < 2

(* ArchwizardPhonemius.build_playlist after the selector returned; in     *)
(* generate() the result is unpacked into track_ids and transitions.       *)
PhonemiusReturn ==
    /\ pc = "check"
    /\ IF insufficient(sel_ret)
       THEN /\ ph_ret' = None
            /\ pc' = "done"
            /\ UNCHANGED <<gen_track_ids, transitions>>
       ELSE LET planned == plan_transitions(Val(sel_ret), TrackDict(library))
            IN  /\ ph_ret' = Some([track_ids |-> Val(sel_ret),
                                   transitions |-> planned])
                /\ IF call.entry = "generate"
                   THEN /\ gen_track_ids' = Some(Val(sel_ret))
                        /\ transitions' = planned
                        /\ pc' = "m3u"
                   ELSE /\ pc' = "done"
                        /\ UNCHANGED <<gen_track_ids, transitions>>
    /\ library' = library_as_read
    /\ UNCHANGED <<call, seed_track_id, target_duration_minutes,
                   bpm_tolerance, playlist_history, now, used_in_set, playlist,
                   total_duration, current_track, seed_id, sel_ret, gen_ret,
                   disk, key1, key2, compatible_ret, config, utc, playlist_id,
                   iteration, run, first_ret, instance,
                   clock_budget, energy_vars>>

(* a direct call of _plan_transitions on a track sequence and the dict of  *)
(* the library                                                             *)
PlanTransitionsCall ==
    /\ pc = "call"
    /\ call.entry = "plan_transitions"
    /\ transitions' = plan_transitions(Val(gen_track_ids), TrackDict(library))
    /\ pc' = "done"
    /\ library' = library_as_read
    /\ UNCHANGED <<call, seed_track_id, target_duration_minutes,
                   bpm_tolerance, playlist_history, now, used_in_set, playlist,
                   total_duration, current_track, seed_id, sel_ret, ph_ret,
                   gen_ret, disk, key1, key2, compatible_ret, config, utc,
                   playlist_id, gen_track_ids, iteration, run, first_ret, instance,
                   clock_budget, energy_vars>>

(* TransitionPlan(track_index=, track_id=, next_track_id=): the other      *)
(* fields take the defaults of TransitionPlan.__init__                     *)
TransitionPlan(track_index, track_id, next_track_id) ==
    [track_index |-> track_index,
     track_id |-> track_id,
     entry_cue |-> "cue_in",
     hold_duration_bars |-> 16,
     target_bpm |-> None,
     exit_cue |-> "cue_out",
     mix_out_seconds |-> 4,
     effect |-> "smart_crossfade",
     next_track_id |-> next_track_id]

(* the list comprehension of generate()'s direct mode *)
direct_transitions(ids) ==
    [idx \in 1..Len(ids) |->
        TransitionPlan(idx - 1, ids[idx],
                       IF idx + 1 <= Len(ids) THEN Some(ids[idx + 1]) ELSE None)]

(* generate() in direct mode: without track_ids it returns None, else it   *)
(* builds the basic transitions                                            *)
GenerateDirect ==
    /\ pc = "call"
    /\ call.entry = "generate_direct"
    /\ ~IsNone(config)
    /\ IF IsNone(gen_track_ids)
       THEN /\ gen_ret' = None
            /\ pc' = "done"
            /\ UNCHANGED transitions
       ELSE /\ transitions' = direct_transitions(Val(gen_track_ids))
            /\ pc' = "m3u"
            /\ UNCHANGED gen_ret
    /\ library' = library_as_read
    /\ UNCHANGED <<call, seed_track_id, target_duration_minutes,
                   bpm_tolerance, playlist_history, now, used_in_set, playlist,
                   total_duration, current_track, seed_id, sel_ret, ph_ret,
                   disk, key1, key2, compatible_ret, config, utc, playlist_id,
                   gen_track_ids, iteration, run, first_ret, instance,
                   clock_budget, energy_vars>>

(* the values of the dict comprehension, in the dict's iteration order:    *)
(* ids in order of first listing, each with its last record                *)
DictValues(lib) ==
    LET firsts == SelectSeq([i \in 1..Len(lib) |-> i],
                            LAMBDA i : \A j \in 1..(i - 1) : lib[j].id # lib[i].id)
    IN  [k \in 1..Len(firsts) |-> TrackDict(lib)[lib[firsts[k]].id]]

(* the paths generate() hands to write_m3u: file_path of each id, None and *)
(* empty paths dropped                                                     *)
track_paths(track_ids, lib) ==
    LET paths == [i \in 1..Len(track_ids) |->
                     DictGet(TrackDict(lib), track_ids[i], "file_path")]
        kept == SelectSeq(paths, LAMBDA p : ~IsNone(p))
    IN  [i \in 1..Len(kept) |-> Val(kept[i])]

(* what write_m3u writes: per path the #EXT-INF duration (of the first     *)
(* dict value with that file_path, 180 without one) and the path           *)
m3u_entries(paths, lib) ==
    [i \in 1..Len(paths) |->
        LET values == DictValues(lib)
            hits == { k \in 1..Len(values) : values[k].file_path = Some(paths[i]) }
        IN  [duration |-> IF hits = {} THEN 180
                          ELSE values[CHOOSE k \in hits :
                                          \A m \in hits : k <= m].duration_seconds,
             path |-> paths[i]]]

RECURSIVE SumDurations(_, _)
SumDurations(track_ids, library_dict) ==
    IF track_ids = <<>> THEN 0
    ELSE (IF Head(track_ids) \in DOMAIN library_dict
          THEN library_dict[Head(track_ids)].duration_seconds ELSE 0)
         + SumDurations(Tail(track_ids), library_dict)

WriteOutcomes == {"written", "open_failed", "write_failed"}

(* f"playlist-{stamp}.m3u", f"transitions-{stamp}.json" *)
FileName(stem, stamp) == [stem |-> stem, stamp |-> stamp]

(* the output directory before the call *)
EmptyDisk == [m3u |-> None, json |-> None, m3u_name |-> None, json_name |-> None]

(* generate(): write_m3u.  open() may fail (no file), a write may fail     *)
(* after open() created the file (only the header is kept here); both are  *)
(* caught, write_m3u returns False and generate returns None.              *)
(* The file name carries the clock reading of line 309.                    *)
WriteM3U ==
    /\ pc = "m3u"
    /\ \E outcome \in WriteOutcomes : \E t \in utcnow(utc, clock_budget) :
          LET paths == track_paths(Val(gen_track_ids), library)
              playlist_filename == FileName("playlist", strftime(t.utc))
          IN  /\ disk' = CASE outcome = "written" ->
                                [disk EXCEPT !.m3u = Some(m3u_entries(paths, library)),
                                             !.m3u_name = Some(playlist_filename)]
                           [] outcome = "write_failed" ->
                                [disk EXCEPT !.m3u = Some(<<>>),
                                             !.m3u_name = Some(playlist_filename)]
                           [] outcome = "open_failed" -> disk
              /\ utc' = t.utc
              /\ clock_budget' = t.budget
              /\ IF outcome = "written"
                 THEN pc' = "json" /\ UNCHANGED gen_ret
                 ELSE pc' = "done" /\ gen_ret' = None
    /\ library' = library_as_read
    /\ UNCHANGED <<call, seed_track_id, target_duration_minutes,
                   bpm_tolerance, playlist_history, now, used_in_set, playlist,
                   total_duration, current_track, seed_id, sel_ret, ph_ret,
                   key1, key2, compatible_ret, config, playlist_id,
                   gen_track_ids, transitions, iteration, run, first_ret,
                   instance, energy_vars>>

(* generate(): write_transitions, then the return of both paths.  The     *)
(* file name carries the clock reading of line 317, generated_at the one   *)
(* write_transitions takes at line 394 (isoformat keeps the fraction of    *)
(* the second).                                                            *)
WriteTransitions ==
    /\ pc = "json"
    /\ \E outcome \in WriteOutcomes :
       \E t1 \in utcnow(utc, clock_budget) : \E t2 \in utcnow(t1.utc, t1.budget) :
          LET transitions_filename == FileName("transitions", strftime(t1.utc))
              plan == [playlist_id |-> PlaylistId("autodj-playlist", None),
                       mix_duration_seconds |->
                           SumDurations(Val(gen_track_ids), TrackDict(library)),
                       generated_at |-> t2.utc,
                       transitions |-> transitions]
          IN  /\ disk' = CASE outcome = "written" ->
                                [disk EXCEPT !.json = Some(plan),
                                             !.json_name = Some(transitions_filename)]
                           [] outcome = "write_failed" ->
                                [disk EXCEPT !.json = Some([plan EXCEPT !.transitions = <<>>]),
                                             !.json_name = Some(transitions_filename)]
                           [] outcome = "open_failed" -> disk
              /\ utc' = t2.utc
              /\ clock_budget' = t2.budget
              /\ gen_ret' = IF outcome = "written"
                            THEN Some(<<Val(disk.m3u_name), transitions_filename>>)
                            ELSE None
    /\ pc' = "done"
    /\ library' = library_as_read
    /\ UNCHANGED <<call, seed_track_id, target_duration_minutes,
                   bpm_tolerance, playlist_history, now, used_in_set, playlist,
                   total_duration, current_track, seed_id, sel_ret, ph_ret,
                   key1, key2, compatible_ret, config, playlist_id,
                   gen_track_ids, transitions, iteration, run, first_ret,
                   instance, energy_vars>>

----------------------------------------------------------------------------
(* The specification of the generation calls *)

Setup ==
    /\ library \in Libraries
    /\ call \in Calls
    /\ seed_track_id \in Seeds(call)
    /\ target_duration_minutes \in Targets
    /\ bpm_tolerance \in Tolerances
    /\ playlist_history \in Histories
    /\ call.entry \in Direct =>
          /\ target_duration_minutes = 5
          /\ bpm_tolerance = 4
          /\ playlist_history = {}
    /\ gen_track_ids \in TrackIdLists(call)
    /\ config \in Configs(call)
    /\ playlist_id \in PlaylistIdArgs(call)
    /\ ~IsNone(playlist_id) => config = Config(None)
    /\ utc = InitialUtc
    /\ transitions = <<>>
    /\ iteration = 0
    /\ run = 1
    /\ first_ret = None
    /\ instance = 1
    /\ energy_track = None
    /\ score_candidates = <<>>
    /\ energy_window_size = 3
    /\ energy_ret = None
    /\ now = InitialHour
    /\ used_in_set = {}
    /\ playlist = <<>>
    /\ total_duration = 0
    /\ current_track = None
    /\ seed_id = None
    /\ pc = "call"
    /\ sel_ret = None
    /\ ph_ret = None
    /\ gen_ret = None
    /\ disk = EmptyDisk
    /\ key1 = None
    /\ key2 = None
    /\ compatible_ret = None

(* the calls, made while the clock stands still *)
Init ==
    /\ Setup
    /\ clock_budget = 0

Next ==
    \/ BuildPlaylistStart
    \/ ExtendPlaylist
    \/ BuildPlaylistReturn
    \/ SecondBuild
    \/ GenerateNoConfig
    \/ SelectSeedTrack
    \/ PhonemiusReturn
    \/ PlanTransitionsCall
    \/ GenerateDirect
    \/ WriteM3U
    \/ WriteTransitions

Spec == Init /\ [][Next]_vars

(* the same calls on one setting of the constraints, made while the clock  *)
(* advances                                                                *)
ClockInit ==
    /\ Setup
    /\ target_duration_minutes = 5
    /\ bpm_tolerance = 4
    /\ playlist_history = {}
    /\ clock_budget = MaxClockAdvances

SpecClock == ClockInit /\ [][Next]_vars

RepeatInit ==
    /\ Init
    /\ call.entry = "build_playlist"

RepeatNext ==
    \/ BuildPlaylistStart
    \/ ExtendPlaylist
    \/ BuildPlaylistReturn
    \/ RepeatBuild

(* build_playlist called twice on one selector instance *)
SpecRepeat == RepeatInit /\ [][RepeatNext]_vars

----------------------------------------------------------------------------
(* Direct calls of the static method _camelot_compatible *)

Chars(n, m) == Some(Key(n, m))

WellFormedKeys == { Chars(n, m) : n \in 1..12, m \in {"A", "B"} }

OtherKeys ==
    { None, Some(UNKNOWN), Some(<<>>),
      Some(<<"i", "n", "v", "a", "l", "i", "d">>),
      Some(<<"1", "3", "B">>), Some(<<"0", "A">>), Some(<<"0", "8", "B">>),
      Some(<<"8", "C">>), Some(<<"8", "b">>), Some(<<" ", "8", "A">>) }

CamelotKeys == WellFormedKeys \cup OtherKeys

CamelotInit ==
    /\ key1 \in CamelotKeys
    /\ key2 \in CamelotKeys
    /\ compatible_ret = None
    /\ pc = "call"
    /\ library = <<>>
    /\ call = [entry |-> "camelot_compatible", strategy |-> "merlin", max_tracks |-> 90]
    /\ seed_track_id = None
    /\ target_duration_minutes = 0
    /\ bpm_tolerance = 4
    /\ playlist_history = {}
    /\ now = InitialHour
    /\ used_in_set = {}
    /\ playlist = <<>>
    /\ total_duration = 0
    /\ current_track = None
    /\ seed_id = None
    /\ sel_ret = None
    /\ ph_ret = None
    /\ gen_ret = None
    /\ disk = EmptyDisk
    /\ config = Config(None)
    /\ utc = InitialUtc
    /\ playlist_id = None
    /\ gen_track_ids = None
    /\ transitions = <<>>
    /\ iteration = 0
    /\ run = 1
    /\ first_ret = None
    /\ instance = 1
    /\ clock_budget = 0
    /\ energy_track = None
    /\ score_candidates = <<>>
    /\ energy_window_size = 3
    /\ energy_ret = None

CamelotCall ==
    /\ pc = "call"
    /\ call.entry = "camelot_compatible"
    /\ compatible_ret' = Some(camelot_compatible(key1, key2))
    /\ pc' = "done"
    /\ UNCHANGED <<library, call, seed_track_id, target_duration_minutes,
                   bpm_tolerance, playlist_history, now, used_in_set, playlist,
                   total_duration, current_track, seed_id, sel_ret, ph_ret,
                   gen_ret, disk, key1, key2, config, utc, playlist_id,
                   gen_track_ids, transitions, iteration, run, first_ret, instance,
                   clock_budget, energy_vars>>

CamelotNext == CamelotCall

SpecCamelot == CamelotInit /\ [][CamelotNext]_vars

----------------------------------------------------------------------------
(* energy.py called directly, as tests/test_energy_scoring.py does *)

(* a track dict that carries only energy descriptors *)
EnergyTrack(id, energy, cue_in, cue_out, loudness, bpm) ==
    [id |-> id, file_path |-> None, duration_seconds |-> 200, bpm |-> bpm,
     key |-> None, energy |-> energy, cue_in_energy |-> cue_in,
     cue_out_energy |-> cue_out, loudness_db |-> loudness]

(* descriptor values: absent, below, inside, at the ends of and above the  *)
(* range each is mapped from                                               *)
EnergyTracks ==
    { EnergyTrack("t", e, i, o, l, b) :
        e \in {None, Some(-200), Some(0), Some(300), Some(1500)},
        i \in {None, Some(700)},
        o \in {None, Some(400), Some(1200)},
        l \in {None, Some(-50), Some(-20), Some(0), Some(5)},
        b \in {None, Some(60), Some(80), Some(130), Some(180), Some(200)} }

MaxCandidates == 4

CandidateIds == <<"t1", "t2", "t3", "t4", "t5">>

(* candidate lists of at most MaxCandidates dicts with an energy of 0.0,   *)
(* 0.5 or 1.0 each, ids by position; in some the second candidate has no   *)
(* id                                                                      *)
CandidateLists ==
    UNION { { [k \in 1..n |->
                 EnergyTrack(IF k = 2 /\ blank THEN "" ELSE CandidateIds[k],
                             Some(es[k]), None, None, None, None)] :
              es \in [1..n -> {0, 500, 1000}], blank \in BOOLEAN } :
            n \in 0..MaxCandidates }

EnergyInit ==
    /\ call \in { [entry |-> e, strategy |-> "merlin", max_tracks |-> 90] :
                    e \in {"estimate_track_energy", "compute_energy_score"} }
    /\ IF call.entry = "estimate_track_energy"
       THEN /\ energy_track \in { Some(t) : t \in EnergyTracks }
            /\ score_candidates = <<>>
            /\ energy_window_size = 3
       ELSE /\ energy_track = Some(EnergyTrack("t0", Some(500), None, None, None, None))
            /\ score_candidates \in CandidateLists
            /\ energy_window_size \in {2, 3}
    /\ energy_ret = None
    /\ pc = "call"
    /\ key1 = None
    /\ key2 = None
    /\ compatible_ret = None
    /\ library = <<>>
    /\ seed_track_id = None
    /\ target_duration_minutes = 0
    /\ bpm_tolerance = 4
    /\ playlist_history = {}
    /\ now = InitialHour
    /\ used_in_set = {}
    /\ playlist = <<>>
    /\ total_duration = 0
    /\ current_track = None
    /\ seed_id = None
    /\ sel_ret = None
    /\ ph_ret = None
    /\ gen_ret = None
    /\ disk = EmptyDisk
    /\ config = Config(None)
    /\ utc = InitialUtc
    /\ playlist_id = None
    /\ gen_track_ids = None
    /\ transitions = <<>>
    /\ iteration = 0
    /\ run = 1
    /\ first_ret = None
    /\ instance = 1
    /\ clock_budget = 0

EstimateTrackEnergyCall ==
    /\ pc = "call"
    /\ call.entry = "estimate_track_energy"
    /\ energy_ret' = Some(estimate_track_energy(Val(energy_track)))
    /\ pc' = "done"
    /\ UNCHANGED <<library, call, seed_track_id, target_duration_minutes,
                   bpm_tolerance, playlist_history, now, used_in_set, playlist,
                   total_duration, current_track, seed_id, sel_ret, ph_ret,
                   gen_ret, disk, key1, key2, compatible_ret, config, utc,
                   playlist_id, gen_track_ids, transitions, iteration, run,
                   first_ret, instance, clock_budget, energy_track,
                   score_candidates, energy_window_size>>

ComputeEnergyScoreCall ==
    /\ pc = "call"
    /\ call.entry = "compute_energy_score"
    /\ energy_ret' = Some(compute_energy_score(Val(energy_track), score_candidates,
                                               energy_window_size))
    /\ pc' = "done"
    /\ UNCHANGED <<library, call, seed_track_id, target_duration_minutes,
                   bpm_tolerance, playlist_history, now, used_in_set, playlist,
                   total_duration, current_track, seed_id, sel_ret, ph_ret,
                   gen_ret, disk, key1, key2, compatible_ret, config, utc,
                   playlist_id, gen_track_ids, transitions, iteration, run,
                   first_ret, instance, clock_budget, energy_track,
                   score_candidates, energy_window_size>>

EnergyNext ==
    \/ EstimateTrackEnergyCall
    \/ ComputeEnergyScoreCall

SpecEnergy == EnergyInit /\ [][EnergyNext]_vars

----------------------------------------------------------------------------
(* Properties of the generation calls *)

UniqueIds(lib) == \A i, j \in 1..Len(lib) : i # j => lib[i].id # lib[j].id

LibraryIds == { library[i].id : i \in 1..Len(library) }

SelectorEntry == call.entry \in {"build_playlist", "select_playlist"}

(* the metadata of a playlist element, looked up by id as the tests do *)
Meta(track_id) == TrackDict(library)[track_id]

(* |bpm(b) - bpm(a)| <= bpm(a) * tolerance / 100, or a BPM absent *)
BpmWithinTolerance(a, b) ==
    \/ IsNone(Meta(a).bpm)
    \/ IsNone(Meta(b).bpm)
    \/ LET x == Val(Meta(a).bpm)
           y == Val(Meta(b).bpm)
       IN  /\ (y - x) * 100 <= x * bpm_tolerance
           /\ (x - y) * 100 <= x * bpm_tolerance

AdjacentBpmOk ==
    \A i \in 1..(Len(Val(sel_ret)) - 1) :
        BpmWithinTolerance(Val(sel_ret)[i], Val(sel_ret)[i + 1])

WheelParse(s) ==
    IF /\ Len(s) \in {2, 3}
       /\ s[Len(s)] \in {"A", "B", "a", "b"}
       /\ \A i \in 1..(Len(s) - 1) : s[i] \in Digits
       /\ s[1] # "0"
       /\ DigitsVal(SubSeq(s, 1, Len(s) - 1)) \in 1..12
    THEN Some([n |-> DigitsVal(SubSeq(s, 1, Len(s) - 1)),
               major |-> s[Len(s)] \in {"B", "b"}])
    ELSE None

(* the wheel's rule on parsed keys *)
WheelCompatible(x, y) ==
    IF x.major = y.major
    THEN x.n = y.n \/ (x.n - y.n) % 12 = 1 \/ (y.n - x.n) % 12 = 1
    ELSE x.n = y.n

KeysHarmonic(ka, kb) ==
    \/ IsNone(ka) \/ IsNone(kb)
    \/ ka = Some(UNKNOWN) \/ kb = Some(UNKNOWN)
    \/ IsNone(WheelParse(Val(ka))) \/ IsNone(WheelParse(Val(kb)))
    \/ WheelCompatible(Val(WheelParse(Val(ka))), Val(WheelParse(Val(kb))))

AdjacentKeysOk ==
    \A i \in 1..(Len(Val(sel_ret)) - 1) :
        KeysHarmonic(Meta(Val(sel_ret)[i]).key, Meta(Val(sel_ret)[i + 1]).key)

C3_NoDuplicates ==
    ~IsNone(sel_ret) =>
        \A i, j \in 1..Len(Val(sel_ret)) :
            i # j => Val(sel_ret)[i] # Val(sel_ret)[j]

(* a playlist of two or more tracks built from a library that lists one of *)
(* the playlist's ids twice                                                *)
C3_Witness ==
    /\ ~IsNone(sel_ret)
    /\ Len(Val(sel_ret)) >= 2
    /\ \E i, j \in 1..Len(library) :
          /\ i # j
          /\ library[i].id = library[j].id
          /\ \E k \in 1..Len(Val(sel_ret)) : Val(sel_ret)[k] = library[i].id

(* C4 as claimed: no element of a returned playlist, the seed included,    *)
(* has a usage record within the last max_repeat_decay_hours.              *)
C4_NoRecentUsage ==
    ~IsNone(sel_ret) =>
        \A i \in 1..Len(Val(sel_ret)) :
            get_recent_usage(Val(sel_ret)[i], max_repeat_decay_hours) = {}

(* C5 as claimed: every track of a returned playlist, the seed included,   *)
(* lasts at least min_track_duration_seconds (a shorter seed fails the     *)
(* call).                                                                  *)
C5_MinDuration ==
    ~IsNone(sel_ret) =>
        \A i \in 1..Len(Val(sel_ret)) :
            Meta(Val(sel_ret)[i]).duration_seconds >= min_track_duration_seconds

FirstIsSeed(track_ids) == track_ids # <<>> /\ track_ids[1] = Val(seed_track_id)

C7_AtLeastTwoTracks ==
    /\ ~IsNone(ph_ret) => Len(Val(ph_ret).track_ids) >= 2
    /\ (/\ call.entry \in Orchestrated
        /\ pc = "done"
        /\ (IsNone(sel_ret) \/ Len(Val(sel_ret)) < 2))
           => IsNone(ph_ret)

(* the selector handed back the seed alone and the call returned None *)
C7_Witness ==
    /\ call.entry = "phonemius"
    /\ pc = "done"
    /\ ~IsNone(sel_ret)
    /\ Len(Val(sel_ret)) = 1
    /\ IsNone(ph_ret)

(* C8 as claimed: build_playlist of either selector and select_playlist    *)
(* return no playlist when the loop exits with fewer than two tracks.      *)
C8_NoSingleTrackPlaylist ==
    (SelectorEntry /\ pc = "done") =>
        (IsNone(sel_ret) \/ Len(Val(sel_ret)) >= 2)

SeedAbsent == ~IsNone(seed_track_id) /\ Val(seed_track_id) \notin LibraryIds

NoArtifacts == IsNone(disk.m3u) /\ IsNone(disk.json)

C10_CamelotRule ==
    \A n1, n2 \in 1..12 : \A m1, m2 \in {"A", "B"} :
        (pc = "done" /\ key1 = Chars(n1, m1) /\ key2 = Chars(n2, m2)) =>
            compatible_ret =
                Some(IF m1 = m2
                     THEN n1 = n2 \/ (n1 - n2) % 12 = 1 \/ (n2 - n1) % 12 = 1
                     ELSE n1 = n2)

(* a string operand that is not a number 1..12 followed by A or B *)
MalformedKey(k) == ~IsNone(k) /\ k \notin WellFormedKeys

(* C11 as claimed: a call of _camelot_compatible with a string operand     *)
(* that is not exactly a number 1..12 followed by A or B returns True,     *)
(* whatever the other operand.                                             *)
C11_MalformedKeyCompatible ==
    (pc = "done" /\ (MalformedKey(key1) \/ MalformedKey(key2))) =>
        compatible_ret = Some(TRUE)

(* the transitions mirror the track sequence ids: one per track, indexed   *)
(* from 0, each naming its track and the track after it                    *)
PlanMirrors(ids, plans) ==
    /\ Len(plans) = Len(ids)
    /\ \A i \in 1..Len(ids) :
          /\ plans[i].track_index = i - 1
          /\ plans[i].track_id = ids[i]
          /\ plans[i].next_track_id =
                 (IF i < Len(ids) THEN Some(ids[i + 1]) ELSE None)

(* C12: the transitions _plan_transitions returns (called on its own or by *)
(* ArchwizardPhonemius.build_playlist) and those generate() builds in      *)
(* direct mode have the length of the track sequence; transition i has     *)
(* track_index i, the id of track i and the id of track i + 1 as           *)
(* next_track_id, absent for the last.                                     *)
C12_TransitionsMirrorPlaylist ==
    /\ ~IsNone(ph_ret) =>
           PlanMirrors(Val(ph_ret).track_ids, Val(ph_ret).transitions)
    /\ (call.entry = "plan_transitions" /\ pc = "done") =>
           PlanMirrors(Val(gen_track_ids), transitions)
    /\ (call.entry \in {"generate", "generate_direct"} /\ pc \in {"m3u", "json"}) =>
           PlanMirrors(Val(gen_track_ids), transitions)

(* _plan_transitions was called on a sequence that names one id twice *)
C12_Witness ==
    /\ call.entry = "plan_transitions"
    /\ pc = "done"
    /\ Len(transitions) = 2
    /\ transitions[1].track_id = transitions[2].track_id
    /\ transitions[1].next_track_id = Some(transitions[2].track_id)

(* C13: build_playlist of either selector, for every library and every    *)
(* max_tracks >= 1, takes at most max_tracks - 1 extension steps (its      *)
(* iteration counter, which starts at 1 and grows by one per appended      *)
(* track, never exceeds max_tracks) and the playlist it builds and returns *)
(* has at most max_tracks tracks.                                          *)
C13_BoundedByMaxTracks ==
    /\ iteration <= call.max_tracks
    /\ Len(playlist) <= call.max_tracks
    /\ iteration > 0 => Len(playlist) = iteration
    /\ ~IsNone(sel_ret) => Len(Val(sel_ret)) <= call.max_tracks

(* a build that max_tracks alone stopped: the target is not reached and a  *)
(* further track could have been chosen                                    *)
C13_Witness ==
    /\ SelectorEntry
    /\ pc = "done"
    /\ ~IsNone(sel_ret)
    /\ Len(Val(sel_ret)) = call.max_tracks
    /\ total_duration < target_duration_seconds
    /\ remaining_candidates(library, used_in_set) # <<>>
    /\ ~IsNone(NextChoice)

UsedBefore(k) == { playlist[j] : j \in 1..(k - 1) }

(* library record i passes the whole candidate filter of the extension     *)
(* step that fills position k: its id is not in the set so far, it has no  *)
(* recent usage, it is BPM- and Camelot-compatible with the tail (the      *)
(* track at k - 1) and it lasts at least the minimum duration              *)
PassesFilter(i, k) ==
    /\ library[i].id \notin UsedBefore(k)
    /\ get_recent_usage(library[i].id, max_repeat_decay_hours) = {}
    /\ bpm_compatible(Meta(playlist[k - 1]).bpm, library[i].bpm, bpm_tolerance)
    /\ camelot_compatible(Meta(playlist[k - 1]).key, library[i].key)
    /\ library[i].duration_seconds >= min_track_duration_seconds

ProgressBefore(k) ==
    Progress(SumDurations(SubSeq(playlist, 1, k - 1), TrackDict(library)),
             target_duration_seconds)

(* distance of library record i to the target energy of the progress at    *)
(* the step that fills position k                                          *)
EnergyDistance(i, k) ==
    compute_energy_distance(target_energy_for_position(ProgressBefore(k)),
                            estimate_track_energy(library[i]))

(* C16: in Energy-Curve mode (BlastxcssSelector) every track appended      *)
(* after the seed is a library record that passes the candidate filter at  *)
(* its step and whose estimated energy is nearest to the target energy of  *)
(* the mix progress at that step: no record passing the filter is strictly *)
(* nearer.                                                                 *)
C16_NearestEnergyCandidate ==
    call.strategy = "blastxcss" =>
        \A k \in 2..Len(playlist) :
            \E i \in 1..Len(library) :
                /\ library[i].id = playlist[k]
                /\ PassesFilter(i, k)
                /\ \A j \in 1..Len(library) :
                      PassesFilter(j, k) => EnergyDistance(i, k) <= EnergyDistance(j, k)

(* a step appended a record listed after another that passes the filter    *)
(* but lies strictly farther from the target energy                        *)
C16_Witness ==
    /\ call.strategy = "blastxcss"
    /\ Len(playlist) >= 2
    /\ \E i, j \in 1..Len(library) :
          /\ i < j
          /\ library[j].id = playlist[2]
          /\ library[i].id # playlist[2]
          /\ PassesFilter(i, 2)
          /\ PassesFilter(j, 2)
          /\ EnergyDistance(j, 2) < EnergyDistance(i, 2)

(* C17 as claimed: after a successful orchestrated generate() every track  *)
(* of the final playlist has a usage record in the store, so that it is    *)
(* reported recently used to a later generation.                           *)
C17_UsageRecorded ==
    (call.entry = "generate" /\ pc = "done" /\ ~IsNone(gen_ret)) =>
        \A i \in 1..Len(Val(gen_track_ids)) :
            get_recent_usage(Val(gen_track_ids)[i], max_repeat_decay_hours) # {}

(* C18 as claimed: when generate() has returned, the playlist file and the *)
(* transitions file of the call are both in the output directory or both   *)
(* absent: a failed write of one leaves the other not behind.              *)
C18_ArtifactsAtomic ==
    (call.entry \in {"generate", "generate_direct"} /\ pc = "done") =>
        (IsNone(disk.m3u) <=> IsNone(disk.json))

(* C19 as claimed: every transition the Planner emits has mix_out_seconds  *)
(* within [2, 8], whatever render.crossfade_duration_seconds the config    *)
(* dict holds.                                                             *)
C19_MixOutClamped ==
    /\ ~IsNone(ph_ret) =>
           \A i \in 1..Len(Val(ph_ret).transitions) :
               Val(ph_ret).transitions[i].mix_out_seconds \in 2..8
    /\ \A i \in 1..Len(transitions) : transitions[i].mix_out_seconds \in 2..8

(* C20 as claimed: the playlist_id of the Mix Plan that an orchestrated    *)
(* generate() wrote is the id ArchwizardPhonemius.build_playlist assigned: *)
(* the caller's, or autodj-YYYYMMDD-HHMMSS of the UTC clock.               *)
C20_PlanCarriesPlaylistId ==
    (call.entry = "generate" /\ pc = "done" /\ ~IsNone(gen_ret)) =>
        /\ ~IsNone(playlist_id)
        /\ Val(disk.json).playlist_id = Val(playlist_id)

(* the clock readings an orchestrated generate() that wrote both files    *)
(* left behind: in the generated playlist id, in the two file names and in *)
(* generated_at                                                            *)
Stamps ==
    { Val(Val(playlist_id).stamp), Val(disk.m3u_name).stamp,
      Val(disk.json_name).stamp, strftime(Val(disk.json).generated_at) }

(* C21 as claimed: every time stamp of one generation call derives from    *)
(* one reading of the clock: the generated playlist id, the name of the    *)
(* playlist file, the name of the transitions file and generated_at show   *)
(* the same UTC second, even if the clock advances during the call.        *)
C21_ClockSampledOnce ==
    (call.entry = "generate" /\ pc = "done" /\ ~IsNone(gen_ret)) =>
        Cardinality(Stamps) = 1

C23_ManifestMirrorsPlaylist ==
    (call.entry \in {"generate", "generate_direct"} /\ pc = "done" /\ ~IsNone(gen_ret)) =>
        LET entries == Val(disk.m3u)
            ids == Val(gen_track_ids)
        IN  /\ Len(entries) = Len(ids)
            /\ \A i \in 1..Len(ids) :
                   /\ transitions[i].track_id = ids[i]
                   /\ DictGet(TrackDict(library), ids[i], "file_path")
                          = Some(entries[i].path)

(* library record i would pass the candidate filter of a further step     *)
(* after the returned playlist p: not used by the selector, no recent      *)
(* usage, compatible in BPM and key with the last track of p, and of       *)
(* sufficient duration                                                     *)
PassesAfter(i, p) ==
    /\ library[i].id \notin used_in_set
    /\ get_recent_usage(library[i].id, max_repeat_decay_hours) = {}
    /\ bpm_compatible(Meta(p[Len(p)]).bpm, library[i].bpm, bpm_tolerance)
    /\ camelot_compatible(Meta(p[Len(p)]).key, library[i].key)
    /\ library[i].duration_seconds >= min_track_duration_seconds

(* C24: the build loop extends exactly while the accumulated duration is   *)
(* below target * 60, the playlist is shorter than max_tracks and a valid  *)
(* successor exists: in a returned playlist the tracks before the last sum *)
(* to less than the target, and a returned playlist whose total is below   *)
(* the target either has max_tracks tracks or leaves no library track that *)
(* passes the filter against its last track.                               *)
C24_LoopExtent ==
    (pc = "done" /\ ~IsNone(sel_ret)) =>
        LET p == Val(sel_ret)
            durations(ids) == SumDurations(ids, TrackDict(library))
        IN  /\ durations(SubSeq(p, 1, Len(p) - 1)) < target_duration_minutes * 60
            /\ durations(p) < target_duration_minutes * 60 =>
                   \/ Len(p) = call.max_tracks
                   \/ \A i \in 1..Len(library) : ~PassesAfter(i, p)

(* a returned playlist of two tracks or more that stopped short of the     *)
(* target and of max_tracks while a track of sufficient duration that the  *)
(* selector had not used was left in the library                           *)
C24_Witness ==
    /\ SelectorEntry
    /\ pc = "done"
    /\ ~IsNone(sel_ret)
    /\ Len(Val(sel_ret)) >= 2
    /\ Len(Val(sel_ret)) < call.max_tracks
    /\ total_duration < target_duration_seconds
    /\ remaining_candidates(library, used_in_set) # <<>>

(* a returned playlist that the target stopped: more candidates passed *)
C24_WitnessTarget ==
    /\ SelectorEntry
    /\ pc = "done"
    /\ ~IsNone(sel_ret)
    /\ Len(Val(sel_ret)) < call.max_tracks
    /\ total_duration >= target_duration_seconds
    /\ \E i \in 1..Len(library) : PassesAfter(i, Val(sel_ret))

(* C25 as claimed: the used set is local to one playlist: a second        *)
(* build_playlist call on the same selector instance, with the same        *)
(* library, seed, target, max_tracks and store state, returns the playlist *)
(* the first call returned.                                                *)
C25_RepeatedBuildSame ==
    (run = 2 /\ instance = 1 /\ pc = "done") => sel_ret = first_ret

(* the progress values choose_next of Blastxcss is compared at *)
Progresses ==
    { [num |-> 0, den |-> 1], [num |-> 1, den |-> 4], [num |-> 1, den |-> 2],
      [num |-> 1, den |-> 1] }

(* the positions, in the candidate list of the current step, of the       *)
(* candidates that pass the filter: not in the used set, no recent usage,  *)
(* BPM and key compatible with the tail track                              *)
CommonValid ==
    LET candidates == remaining_candidates(library, used_in_set)
        tail == Val(current_track)
    IN  { i \in 1..Len(candidates) :
            /\ candidates[i].id \notin used_in_set
            /\ get_recent_usage(candidates[i].id, max_repeat_decay_hours) = {}
            /\ bpm_compatible(tail.bpm, candidates[i].bpm, bpm_tolerance)
            /\ camelot_compatible(tail.key, candidates[i].key) }

CommonValidIds ==
    { remaining_candidates(library, used_in_set)[i].id : i \in CommonValid }

C27_BoundedByConfig ==
    (/\ call.entry \in Orchestrated
     /\ ~IsNone(config)
     /\ ~IsNone(Val(config).mix.max_playlist_tracks)
     /\ ~IsNone(ph_ret)) =>
        Len(Val(ph_ret).track_ids) <= Val(Val(config).mix.max_playlist_tracks)

(* the descriptors of a track in the order of their priority *)
Descriptors == <<"energy", "cue_in_energy", "cue_out_energy", "loudness_db", "bpm">>

(* the value in [0, 1] (thousandths) a descriptor stands for, before       *)
(* clamping: an energy as it is, a loudness linearly from [-40, 0] dB, a   *)
(* BPM linearly from [80, 180]                                             *)
DescriptorEnergy(k, v) ==
    CASE k <= 3 -> v
      [] k = 4 -> ((v + 40) * 1000) \div 40
      [] k = 5 -> ((v - 80) * 1000) \div 100

(* C28: estimate_track_energy returns a value in [0, 1] taken from the     *)
(* first available descriptor in the order energy, cue_in_energy,          *)
(* cue_out_energy, loudness_db, bpm, clamped, and 0.5 when the track has   *)
(* none: a descriptor of lower priority never changes the result when one  *)
(* of higher priority is present (bpm 80 gives 0.0 and bpm 180 gives 1.0   *)
(* when bpm is the first).                                                 *)
C28_EnergyFromFirstDescriptor ==
    (call.entry = "estimate_track_energy" /\ pc = "done") =>
        LET t == Val(energy_track)
            r == Val(energy_ret)
            present == { k \in 1..5 : ~IsNone(t[Descriptors[k]]) }
        IN  /\ r >= 0
            /\ r <= 1000
            /\ present = {} => r = 500
            /\ \A k \in present :
                   (\A j \in present : k <= j) =>
                       LET v == DescriptorEnergy(k, Val(t[Descriptors[k]]))
                       IN  /\ v < 0 => r = 0
                           /\ v > 1000 => r = 1000
                           /\ (v >= 0 /\ v <= 1000) => r = v
                           /\ (k = 5 /\ t.bpm = Some(80)) => r = 0
                           /\ (k = 5 /\ t.bpm = Some(180)) => r = 1000

(* the result for a track whose cue_in_energy wins over a cue_out_energy,  *)
(* a loudness and a BPM that would each give another value                 *)
C28_Witness ==
    /\ call.entry = "estimate_track_energy"
    /\ pc = "done"
    /\ IsNone(Val(energy_track).energy)
    /\ Val(energy_track).cue_in_energy = Some(700)
    /\ Val(energy_track).cue_out_energy = Some(1200)
    /\ Val(energy_track).loudness_db = Some(-20)
    /\ Val(energy_track).bpm = Some(180)
    /\ energy_ret = Some(700)

(* C29 as claimed: in compute_energy_score the lookahead term of the       *)
(* candidate at index idx is the variance of the energies of the first     *)
(* W = energy_window_size items that follow it (positions idx + 1 to       *)
(* idx + W, cut at the end of the list), and it is 0 when fewer than 2     *)
(* such items exist.                                                       *)
C29_LookaheadWindow ==
    (call.entry = "compute_energy_score" /\ pc = "done") =>
        \A p \in 1..Len(score_candidates) :
            score_candidates[p].id # "" =>
                LET n == Len(score_candidates)
                    last == IF p + energy_window_size < n
                            THEN p + energy_window_size ELSE n
                    following == [k \in 1..(last - p) |->
                                     Val(score_candidates[p + k].energy)]
                    term == Val(energy_ret)[score_candidates[p].id].variance
                IN  IF Len(following) < 2 THEN term.num = 0
                    ELSE term.num * variance(following).den
                            = variance(following).num * term.den

(* the library records a fallback seed may be drawn from *)
SeedCandidates ==
    { i \in 1..Len(library) :
        library[i].duration_seconds >= min_track_duration_seconds }

(* C30: _select_seed_track, given no explicit seed or an explicit seed     *)
(* that is not an id of the library, falls back to a seed drawn from the   *)
(* library tracks with duration_seconds >= min_track_duration_seconds: the *)
(* id it returns belongs to such a track, and it returns None when the     *)
(* library is empty or holds no such track.                                *)
C30_FallbackSeed ==
    (/\ call.entry \in Orchestrated
     /\ ~IsNone(config)
     /\ pc # "call"
     /\ (IsNone(seed_track_id) \/ SeedAbsent)) =>
        /\ (library = <<>> \/ SeedCandidates = {}) <=> IsNone(seed_id)
        /\ ~IsNone(seed_id) =>
               \E i \in SeedCandidates : library[i].id = Val(seed_id)

(* without an explicit seed, a seed was drawn from a library that lists a  *)
(* track below the minimum duration first                                  *)
C30_Witness ==
    /\ call.entry \in Orchestrated
    /\ pc # "call"
    /\ IsNone(seed_track_id)
    /\ Len(library) >= 2
    /\ 1 \notin SeedCandidates
    /\ ~IsNone(seed_id)
    /\ \E i \in SeedCandidates : library[i].id = Val(seed_id) /\ i > 1

====
